---- MODULE Spec2Model ----
(***************************************************************************)
(* A model of streamrip's stream acquisition and decryption helpers        *)
(* (streamrip/utils.py) and of the quality derivation duplicated in        *)
(* streamrip/metadata.py.                                                  *)
(*                                                                         *)
(* Four specifications share the module's variables; each one drives its   *)
(* own group of variables and leaves the other groups untouched:           *)
(*   SpecQuality   the pure quality/container/extension functions          *)
(*   SpecDownload  one transfer: tqdm_download or DownloadStream           *)
(*   SpecMqa       decrypt_mqa_file                                        *)
(*   SpecPool      many concurrent transfers and their sessions            *)
(***************************************************************************)
EXTENDS Integers, Sequences, FiniteSets, TLC

VARIABLES
    \* ---- QualityResolver: the arguments of a call, the function called, its outcome
    bit_depth, sampling_rate, quality_id, source, call, ret,
    \* ---- one transfer (tqdm_download, or a DownloadStream and its consumer)
    api,            \* "tqdm_download" or "DownloadStream"
    url,            \* [path, suffix]: what the code reads of the URL
    content_length, \* the response's content-length header, None when absent
    body,           \* bytes of the response body not read yet
    body_json,      \* what r.json() makes of the body
    fs_remove_ok,   \* whether the file system lets the destination be removed
    pc,             \* where the transfer is
    conn,           \* the connection of the response: "none", "open", "released"
    dest,           \* the file at filepath: [exists, size]
    written,        \* bytes tqdm_download wrote to filepath
    delivered,      \* bytes DownloadStream handed to its consumer
    exc,            \* the exception that reached the caller: [type, msg, at]
    provider,       \* DownloadStream.source, the provider tag
    item_id,        \* DownloadStream.id: [type, val]
    payload,        \* which of the bodies of its length the response carries
    iters,          \* iterators obtained from the DownloadStream
    chunk_in,       \* the last raw chunk read for the consumer
    chunk,          \* the same chunk as the consumer received it
    \* ---- decrypt_mqa_file(in_path, out_path, encryption_key)
    crypto_available, \* whether Crypto.Cipher can be imported
    token,          \* the shape of encryption_key
    in_file,        \* the file at in_path: [exists, data]
    out_before,     \* the file at out_path when the call was made
    out_file,       \* the file at out_path: [exists, data]
    dec_bytes,      \* the decrypted bytes held in memory
    mpc,            \* where the call is
    mexc,           \* the exception class that reached the caller
    \* ---- many transfers at once
    pending,        \* sessions created whose request is not sent yet
    open_conns,     \* connections open, over all sessions
    finished        \* transfers whose connection was handed back

qvars == <<bit_depth, sampling_rate, quality_id, source, call, ret>>

\* What only a DownloadStream has.
svars == <<provider, item_id, payload, iters, chunk_in, chunk>>

dvars == <<api, url, content_length, body, body_json, fs_remove_ok, pc, conn,
           dest, written, delivered, exc, svars>>

mvars == <<crypto_available, token, in_file, out_before, out_file, dec_bytes,
           mpc, mexc>>

pvars == <<pending, open_conns, finished>>

vars == <<qvars, dvars, mvars, pvars>>

\* A step of one component leaves the variables of the others alone.
QualityFrame == UNCHANGED <<dvars, mvars, pvars>>

DownloadFrame == UNCHANGED <<qvars, mvars, pvars>>

MqaFrame == UNCHANGED <<qvars, dvars, pvars>>

PoolFrame == UNCHANGED <<qvars, dvars, mvars>>

(***************************************************************************)
(* Python values.                                                          *)
(***************************************************************************)

\* Python's None where the code has an Optional[int]; no int of the model's
\* input sets equals it.
None == -1

\* The outcome of a call: a returned value or a raised exception (by class name).
Return(v) == [kind |-> "return", val |-> v]

Raise(e) == [kind |-> "raise", val |-> e]

NoCall == [kind |-> "none", val |-> None]

(***************************************************************************)
(* Bounds and input sets.                                                  *)
(***************************************************************************)

\* Quality ids range over 0..MaxQualityId (the code defines 0..4).
MaxQualityId == 5

QualityIds == 0..MaxQualityId

\* 16 and 24 are the depths the code knows; 20 and 32 are others.
BitDepths == {None, 16, 20, 24, 32}

\* Rates in kHz (the unit get_quality_id compares against 96), and the Hz
\* values get_stats_from_quality returns.
SamplingRates == {None, 44, 48, 88, 96, 97, 176, 192, 44100, 96000, 192000}

\* The three providers of __QUALITY_MAP and one that is not in it.
Sources == {"qobuz", "deezer", "tidal", "soundcloud"}

(***************************************************************************)
(* QualityResolver: utils.py and metadata.py.                              *)
(***************************************************************************)

QUALITY_MAP ==
    [qobuz  |-> (1 :> 5 @@ 2 :> 6 @@ 3 :> 7 @@ 4 :> 27),
     deezer |-> (0 :> <<9, "MP3_128">> @@ 1 :> <<3, "MP3_320">> @@ 2 :> <<1, "FLAC">>),
     tidal  |-> (0 :> "LOW" @@ 1 :> "HIGH" @@ 2 :> "LOSSLESS" @@ 3 :> "HI_RES")]

\* __QUALITY_MAP[source][quality_id]: a dict lookup raises KeyError on a
\* missing key, at either level.
get_quality(q, s) ==
    IF s \notin DOMAIN QUALITY_MAP THEN Raise("KeyError")
    ELSE IF q \notin DOMAIN QUALITY_MAP[s] THEN Raise("KeyError")
    ELSE Return(QUALITY_MAP[s][q])

\* utils.get_quality_id: falls off the end (returns None) for a bit depth
\* that is neither 16 nor 24.
get_quality_id(b, r) ==
    IF b = None \/ r = None THEN Return(1)
    ELSE IF b = 16 THEN Return(2)
    ELSE IF b = 24 THEN (IF r <= 96 THEN Return(3) ELSE Return(4))
    ELSE Return(None)

\* metadata.get_quality_id: the same, ending in raise Exception(...).
metadata_get_quality_id(b, r) ==
    IF b = None \/ r = None THEN Return(1)
    ELSE IF b = 16 THEN Return(2)
    ELSE IF b = 24 THEN (IF r <= 96 THEN Return(3) ELSE Return(4))
    ELSE Raise("Exception")

\* get_stats_from_quality with the two 24 bit rows exchanged.
get_stats_from_quality_swapped(q) ==
    IF q <= 1 THEN Return(<<None, None>>)
    ELSE IF q = 2 THEN Return(<<16, 44100>>)
    ELSE IF q = 3 THEN Return(<<24, 192000>>)
    ELSE IF q = 4 THEN Return(<<24, 96000>>)
    ELSE Raise("InvalidQuality")

get_stats_from_quality(q) ==
    IF q <= 1 THEN Return(<<None, None>>)
    ELSE IF q = 2 THEN Return(<<16, 44100>>)
    ELSE IF q = 3 THEN Return(<<24, 96000>>)
    ELSE IF q = 4 THEN Return(<<24, 192000>>)
    ELSE Raise("InvalidQuality")

\* ext with the lossy test off by one (quality < 1).
ext_off_by_one(q, s) ==
    IF q < 1
    THEN (IF s = "tidal" THEN Return(".m4a") ELSE Return(".mp3"))
    ELSE Return(".flac")

ext(q, s) ==
    IF q <= 1
    THEN (IF s = "tidal" THEN Return(".m4a") ELSE Return(".mp3"))
    ELSE Return(".flac")

get_container(q, s) ==
    IF q >= 2 THEN Return("FLAC")
    ELSE IF s = "tidal" THEN Return("AAC")
    ELSE Return("MP3")

\* The variables of the QualityResolver while another component runs.
QualityIdle ==
    /\ bit_depth = None
    /\ sampling_rate = None
    /\ quality_id = 0
    /\ source = "qobuz"
    /\ call = "none"
    /\ ret = NoCall

QualityCalls ==
    /\ bit_depth \in BitDepths
    /\ sampling_rate \in SamplingRates
    /\ quality_id \in QualityIds
    /\ source \in Sources
    /\ call = "none"
    /\ ret = NoCall

CallGetQuality ==
    /\ call' = "get_quality"
    /\ ret' = get_quality(quality_id, source)
    /\ UNCHANGED <<bit_depth, sampling_rate, quality_id, source>>
    /\ QualityFrame

CallGetQualityId ==
    /\ call' = "get_quality_id"
    /\ ret' = get_quality_id(bit_depth, sampling_rate)
    /\ UNCHANGED <<bit_depth, sampling_rate, quality_id, source>>
    /\ QualityFrame

CallMetadataGetQualityId ==
    /\ call' = "metadata.get_quality_id"
    /\ ret' = metadata_get_quality_id(bit_depth, sampling_rate)
    /\ UNCHANGED <<bit_depth, sampling_rate, quality_id, source>>
    /\ QualityFrame

CallGetStatsFromQuality ==
    /\ call' = "get_stats_from_quality"
    /\ ret' = get_stats_from_quality(quality_id)
    /\ UNCHANGED <<bit_depth, sampling_rate, quality_id, source>>
    /\ QualityFrame

CallExt ==
    /\ call' = "ext"
    /\ ret' = ext(quality_id, source)
    /\ UNCHANGED <<bit_depth, sampling_rate, quality_id, source>>
    /\ QualityFrame

CallGetContainer ==
    /\ call' = "get_container"
    /\ ret' = get_container(quality_id, source)
    /\ UNCHANGED <<bit_depth, sampling_rate, quality_id, source>>
    /\ QualityFrame

QualityNext ==
    \/ CallGetQuality
    \/ CallGetQualityId
    \/ CallMetadataGetQualityId
    \/ CallGetStatsFromQuality
    \/ CallExt
    \/ CallGetContainer

(***************************************************************************)
(* One transfer: tqdm_download, and DownloadStream with its consumer.      *)
(***************************************************************************)

\* The body is read in chunks of 1024 bytes (iter_content(chunk_size=1024)).
ChunkSize == 1024

\* tqdm_download treats a response shorter than this as an error payload.
SmallResponse == 1000

\* The longest body is MaxChunks chunks and one byte.
MaxChunks == 2

BodySizes ==
    {0, 1, SmallResponse - 1, SmallResponse}
        \cup {k * ChunkSize : k \in 1..MaxChunks}
        \cup {k * ChunkSize + 1 : k \in 1..MaxChunks}

\* The content-length header: absent, or the length of the body.
ContentLengths == {None} \cup BodySizes

\* r.json() of the body: not JSON (JSONDecodeError), an object with an
\* "error" entry, an object without one, or a JSON value that is no object.
BodyJson == {"invalid", "error_object", "other_object", "not_object"}

\* The text of the "error" entry of a provider's error payload.
ProviderErrorText == "provider error text"

\* What the code reads of a URL: the path marker DownloadStream.is_encrypted
\* looks for, and the suffix tqdm_download tests with endswith.
Urls == [path : {"/mobile/", "/media/", "/other/"}, suffix : {"jpg", "png", "flac"}]

NoFile == [exists |-> FALSE, size |-> 0]

\* A file that was at filepath before the transfer.
OldFile == [exists |-> TRUE, size |-> 7]

NoExc == [type |-> "none", msg |-> "", at |-> ""]

Exc(t, m, a) == [type |-> t, msg |-> m, at |-> a]

\* Errors of the write loop: iter_content fails, file.write fails, the user
\* interrupts. KeyboardInterrupt derives from BaseException, not Exception.
LoopErrors == {"ConnectionError", "OSError", "KeyboardInterrupt"}

IsException(t) == t # "KeyboardInterrupt"

\* int(r.headers.get("content-length", 0))
declared_length(h) == IF h = None THEN 0 ELSE h

\* tqdm_download's test for an error payload, with total < 0 for total < 1000
\* and the image exemption dropped.
is_error_payload_never(t, u) == t < 0

\* total < 1000 and not url.endswith("jpg") and not url.endswith("png")
is_error_payload(t, u) ==
    t < SmallResponse /\ u.suffix # "jpg" /\ u.suffix # "png"

\* raise NonStreamable(r.json()["error"]), except JSONDecodeError:
\* raise NonStreamable("Resource not found."). A JSON object without "error"
\* raises KeyError and a JSON value that is no object TypeError; neither is
\* caught.
payload_error(j) ==
    CASE j = "invalid"      -> Exc("NonStreamable", "Resource not found.", "check")
      [] j = "error_object" -> Exc("NonStreamable", ProviderErrorText, "check")
      [] j = "other_object" -> Exc("KeyError", "error", "check")
      [] OTHER              -> Exc("TypeError", "", "check")

\* DownloadStream.__init__: if self.file_size == 0
not_streamable(size) == size = 0

\* os.remove(filepath): the file goes unless the file system refuses
\* (OSError, FileNotFoundError included).
os_remove(d, ok) == IF d.exists /\ ok THEN NoFile ELSE d

\* The handler with the removal left out.
except_handler_no_remove(d, t, ok) == d

\* except Exception: try: os.remove(filepath) except OSError: pass; raise.
\* The file at filepath after error t left the try block.
except_handler(d, t, ok) == IF IsException(t) THEN os_remove(d, ok) ELSE d

(***************************************************************************)
(* DownloadStream: the chunks and the Blowfish pass over them.             *)
(***************************************************************************)

\* chunk[:2048] is decrypted, chunk[2048:] is not; chunks of 2048 * 3 bytes.
BlowfishSpan == 2048

\* Blowfish works on blocks of 8 bytes (the IV has 8 bytes).
BlowfishBlock == 8

\* A DownloadStream is iterated at most MaxIters times.
MaxIters == 2

\* Responses a DownloadStream may meet: those of tqdm_download and bodies of
\* one or more chunks of 2048 * 3 bytes, with a tail of 0, 1, 2048 or 2049.
StreamBodySizes ==
    BodySizes
        \cup {k * (BlowfishSpan * 3) + d :
                 k \in 1..(MaxChunks - 1), d \in {0, 1, BlowfishSpan, BlowfishSpan + 1}}

\* item_id: absent, an int, or a str; val stands for the digits.
NoId == [type |-> "none", val |-> 0]

ItemIds == {NoId, [type |-> "int", val |-> 7], [type |-> "str", val |-> 7],
            [type |-> "str", val |-> 8]}

\* if isinstance(self.id, int): self.id = str(self.id)
normalize_id(id) == IF id.type = "int" THEN [type |-> "str", val |-> id.val] ELSE id

\* Byte p (from 1) of the body: a byte is 0 or 1, as in decrypt_mqa_file.
BodyByte(seed, p) == ((p * p) \div 5 + seed * p + p \div 3) % 2

\* One read of n bytes from the raw stream, off bytes into the body.
read_chunk(seed, off, n) == [i \in 1..n |-> BodyByte(seed, off + i)]

\* is_encrypted = re.compile("/m(?:obile|edia)/"), searched in self.url
is_encrypted(u) == u.path \in {"/mobile/", "/media/"}

\* The test of __iter__ without the search in the URL.
decryptor_active_any_url(src, u) == src = "deezer"

\* self.source == "deezer" and self.is_encrypted.search(self.url) is not None
decryptor_active(src, u) == src = "deezer" /\ is_encrypted(u)

\* iter_content(2048 * 3) when the decryptor is active, else
\* iter_content(chunk_size=1024)
iter_chunk_size(src, u) ==
    IF decryptor_active(src, u) THEN BlowfishSpan * 3 ELSE ChunkSize

\* _generate_blowfish_key(track_id): 16 bytes out of the md5 of the id and a
\* fixed secret; here one bit that differs between the ids of ItemIds.
generate_blowfish_key(id) == id.val % 2

\* b"\x00\x01\x02\x03\x04\x05\x06\x07", each byte reduced to the model's bytes.
BlowfishIV == [j \in 1..BlowfishBlock |-> (j - 1) % 2]

\* Blowfish's decryption of the 8 byte block that holds byte i of data: a
\* keyed bijection on blocks (the block rotated by one byte, plus the key).
block_decrypt(key, data, i) ==
    LET first == ((i - 1) \div BlowfishBlock) * BlowfishBlock
        j == (i - 1) % BlowfishBlock
    IN  (data[first + ((j + 1) % BlowfishBlock) + 1] + key) % 2

\* Blowfish.new(key, Blowfish.MODE_CBC, iv).decrypt(data): a cipher made for
\* this call; each plaintext block is the decrypted block xor the ciphertext
\* block before it, the IV before the first.
decrypt_chunk(key, data) ==
    [i \in 1..Len(data) |->
        (block_decrypt(key, data, i)
            + (IF i <= BlowfishBlock THEN BlowfishIV[i] ELSE data[i - BlowfishBlock])) % 2]

\* The transform with the test len(chunk) > 2048.
transform_chunk_strict(key, c) ==
    IF Len(c) > BlowfishSpan
    THEN decrypt_chunk(key, SubSeq(c, 1, BlowfishSpan)) \o SubSeq(c, BlowfishSpan + 1, Len(c))
    ELSE c

\* (self._decrypt_chunk(blowfish_key, chunk[:2048]) + chunk[2048:])
\* if len(chunk) >= 2048 else chunk
transform_chunk(key, c) ==
    IF Len(c) >= BlowfishSpan
    THEN decrypt_chunk(key, SubSeq(c, 1, BlowfishSpan)) \o SubSeq(c, BlowfishSpan + 1, Len(c))
    ELSE c

\* No DownloadStream: tqdm_download has no provider, id or iterator.
NoStream ==
    /\ provider = "none"
    /\ item_id = NoId
    /\ payload = 0
    /\ iters = 0
    /\ chunk_in = <<>>
    /\ chunk = <<>>

DownloadIdle ==
    /\ api = "none"
    /\ url = [path |-> "/other/", suffix |-> "flac"]
    /\ content_length = None
    /\ body = 0
    /\ body_json = "invalid"
    /\ fs_remove_ok = TRUE
    /\ pc = "idle"
    /\ conn = "none"
    /\ dest = NoFile
    /\ written = 0
    /\ delivered = 0
    /\ exc = NoExc
    /\ NoStream

\* A transfer about to start: the response the server will give and the
\* file system the destination lives on. A declared length is the length of
\* the body; an empty body is not JSON. A DownloadStream has a provider, an
\* item id and the bytes of its body; it has no destination of its own, does
\* not look at the URL's suffix and never parses the body.
DownloadStart ==
    /\ api \in {"tqdm_download", "DownloadStream"}
    /\ url \in Urls
    /\ content_length \in ContentLengths \cup StreamBodySizes
    /\ body \in StreamBodySizes
    /\ content_length # None => body = content_length
    /\ body_json \in BodyJson
    /\ body = 0 => body_json = "invalid"
    /\ fs_remove_ok \in BOOLEAN
    /\ pc = "start"
    /\ conn = "none"
    /\ dest \in {NoFile, OldFile}
    /\ written = 0
    /\ delivered = 0
    /\ exc = NoExc
    /\ provider \in {"none", "deezer", "tidal"}
    /\ item_id \in ItemIds
    /\ payload \in {0, 1}
    /\ iters = 0
    /\ chunk_in = <<>>
    /\ chunk = <<>>
    /\ IF api = "tqdm_download"
       THEN body \in BodySizes /\ provider = "none" /\ item_id = NoId /\ payload = 0
       ELSE /\ provider # "none"
            /\ url.suffix = "flac"
            /\ body_json = "invalid"
            /\ fs_remove_ok
            /\ dest = NoFile

\* session = gen_threadsafe_session(); session.get(url, stream=True, ...):
\* the response's headers are in, its body is still on the connection.
SessionGet ==
    /\ pc = "start"
    /\ pc' = "responded"
    /\ conn' = "open"
    /\ item_id' = normalize_id(item_id)
    /\ UNCHANGED <<api, url, content_length, body, body_json, fs_remove_ok,
                   dest, written, delivered, exc>>
    /\ UNCHANGED <<provider, payload, iters, chunk_in, chunk>>
    /\ DownloadFrame

\* tqdm_download, from total = ... to the raise: r.text and r.json() read the
\* whole body, which hands the connection back.
TqdmLengthCheck ==
    /\ api = "tqdm_download"
    /\ pc = "responded"
    /\ IF is_error_payload(declared_length(content_length), url)
       THEN /\ body' = 0
            /\ conn' = "released"
            /\ exc' = payload_error(body_json)
            /\ pc' = "raised"
       ELSE /\ pc' = "checked"
            /\ UNCHANGED <<body, conn, exc>>
    /\ UNCHANGED <<api, url, content_length, body_json, fs_remove_ok, dest,
                   written, delivered>>
    /\ UNCHANGED svars
    /\ DownloadFrame

\* open(filepath, "wb"): creates or truncates the file; when it fails the
\* handler runs with nothing written.
TqdmOpenFile ==
    /\ api = "tqdm_download"
    /\ pc = "checked"
    /\ \E ok \in BOOLEAN :
          IF ok
          THEN /\ dest' = [exists |-> TRUE, size |-> 0]
               /\ pc' = "writing"
               /\ exc' = exc
          ELSE /\ dest' = except_handler(dest, "OSError", fs_remove_ok)
               /\ pc' = "raised"
               /\ exc' = Exc("OSError", "", "open")
    /\ UNCHANGED <<api, url, content_length, body, body_json, fs_remove_ok,
                   conn, written, delivered>>
    /\ UNCHANGED svars
    /\ DownloadFrame

\* One turn of the loop: for data in r.iter_content(chunk_size=1024):
\* size = file.write(data).
TqdmWriteChunk ==
    /\ api = "tqdm_download"
    /\ pc = "writing"
    /\ body > 0
    /\ LET size == IF body < ChunkSize THEN body ELSE ChunkSize
       IN  /\ body' = body - size
           /\ written' = written + size
           /\ dest' = [dest EXCEPT !.size = @ + size]
    /\ UNCHANGED <<api, url, content_length, body_json, fs_remove_ok, pc, conn,
                   delivered, exc>>
    /\ UNCHANGED svars
    /\ DownloadFrame

\* The body is exhausted: the loop ends, the file is closed, the function
\* returns. A body read to its end hands the connection back.
TqdmFinish ==
    /\ api = "tqdm_download"
    /\ pc = "writing"
    /\ body = 0
    /\ pc' = "done"
    /\ conn' = "released"
    /\ UNCHANGED <<api, url, content_length, body, body_json, fs_remove_ok,
                   dest, written, delivered, exc>>
    /\ UNCHANGED svars
    /\ DownloadFrame

\* A step of the loop raises: the with block closes the file, the handler
\* runs, the error goes on to the caller. Nothing closes the response.
TqdmLoopRaises ==
    /\ api = "tqdm_download"
    /\ pc = "writing"
    /\ \E t \in LoopErrors :
          /\ dest' = except_handler(dest, t, fs_remove_ok)
          /\ exc' = Exc(t, "", "loop")
    /\ pc' = "raised"
    /\ UNCHANGED <<api, url, content_length, body, body_json, fs_remove_ok,
                   conn, written, delivered>>
    /\ UNCHANGED svars
    /\ DownloadFrame

\* DownloadStream.__init__ after the request: self.file_size = ...;
\* if self.file_size == 0: raise NonStreamable (no message, body unread).
StreamLengthCheck ==
    /\ api = "DownloadStream"
    /\ pc = "responded"
    /\ IF not_streamable(declared_length(content_length))
       THEN /\ exc' = Exc("NonStreamable", "", "check")
            /\ pc' = "raised"
       ELSE /\ pc' = "constructed"
            /\ exc' = exc
    /\ UNCHANGED <<api, url, content_length, body, body_json, fs_remove_ok,
                   conn, dest, written, delivered>>
    /\ UNCHANGED svars
    /\ DownloadFrame

\* __iter__ on a stream whose body was read to the end, starting over.
StreamIterRestart ==
    /\ api = "DownloadStream"
    /\ pc \in {"constructed", "done"}
    /\ iters < MaxIters
    /\ IF pc = "done"
       THEN /\ body' = content_length
            /\ pc' = "constructed"
            /\ iters' = iters + 1
            /\ exc' = exc
       ELSE IF decryptor_active(provider, url) /\ item_id.type # "str"
       THEN /\ exc' = Exc("AssertionError", "", "iter")
            /\ pc' = "raised"
            /\ UNCHANGED <<iters, body>>
       ELSE /\ iters' = iters + 1
            /\ UNCHANGED <<pc, exc, body>>
    /\ UNCHANGED <<api, url, content_length, body_json, fs_remove_ok, conn,
                   dest, written, delivered>>
    /\ UNCHANGED <<provider, item_id, payload, chunk_in, chunk>>
    /\ DownloadFrame

\* __iter__ (iter(stream), or the for loop of tqdm_stream). With the
\* decryptor active the id must be a str (assert). The response's
\* iter_content refuses a body that was already read to the end
\* (StreamConsumedError); otherwise the new iterator reads on from where the
\* raw stream stands.
StreamIter ==
    /\ api = "DownloadStream"
    /\ pc \in {"constructed", "done"}
    /\ iters < MaxIters
    /\ IF decryptor_active(provider, url) /\ item_id.type # "str"
       THEN /\ exc' = Exc("AssertionError", "", "iter")
            /\ pc' = "raised"
            /\ iters' = iters
       ELSE IF pc = "done"
       THEN /\ exc' = Exc("StreamConsumedError", "", "iter")
            /\ pc' = "raised"
            /\ iters' = iters
       ELSE /\ iters' = iters + 1
            /\ UNCHANGED <<pc, exc>>
    /\ UNCHANGED <<api, url, content_length, body, body_json, fs_remove_ok,
                   conn, dest, written, delivered>>
    /\ UNCHANGED <<provider, item_id, payload, chunk_in, chunk>>
    /\ DownloadFrame

\* The consumer pulls one chunk from an iterator: one read of the raw
\* stream, passed through the decryptor when it is active.
StreamIterChunk ==
    /\ api = "DownloadStream"
    /\ pc = "constructed"
    /\ iters > 0
    /\ body > 0
    /\ LET limit == iter_chunk_size(provider, url)
           size == IF body < limit THEN body ELSE limit
           raw == read_chunk(payload, content_length - body, size)
           out == IF decryptor_active(provider, url)
                  THEN transform_chunk(generate_blowfish_key(item_id), raw)
                  ELSE raw
       IN  /\ body' = body - size
           /\ chunk_in' = raw
           /\ chunk' = out
           /\ delivered' = delivered + Len(out)
    /\ UNCHANGED <<api, url, content_length, body_json, fs_remove_ok, pc, conn,
                   dest, written, exc>>
    /\ UNCHANGED <<provider, item_id, payload, iters>>
    /\ DownloadFrame

\* The iterator is exhausted.
StreamExhausted ==
    /\ api = "DownloadStream"
    /\ pc = "constructed"
    /\ iters > 0
    /\ body = 0
    /\ pc' = "done"
    /\ conn' = "released"
    /\ UNCHANGED <<api, url, content_length, body, body_json, fs_remove_ok,
                   dest, written, delivered, exc>>
    /\ UNCHANGED svars
    /\ DownloadFrame

\* Reading a chunk fails, or the consumer fails on one: the error leaves the
\* iteration. DownloadStream has no close and no handler.
StreamIterRaises ==
    /\ api = "DownloadStream"
    /\ pc = "constructed"
    /\ iters > 0
    /\ \E t \in LoopErrors : exc' = Exc(t, "", "loop")
    /\ pc' = "raised"
    /\ UNCHANGED <<api, url, content_length, body, body_json, fs_remove_ok,
                   conn, dest, written, delivered>>
    /\ UNCHANGED svars
    /\ DownloadFrame

DownloadNext ==
    \/ SessionGet
    \/ TqdmLengthCheck
    \/ TqdmOpenFile
    \/ TqdmWriteChunk
    \/ TqdmFinish
    \/ TqdmLoopRaises
    \/ StreamLengthCheck
    \/ StreamIter
    \/ StreamIterChunk
    \/ StreamExhausted
    \/ StreamIterRaises

(***************************************************************************)
(* decrypt_mqa_file.                                                       *)
(***************************************************************************)

\* Files hold at most MaxFileLen bytes; a byte is 0 or 1.
MaxFileLen == 3

Bytes == {0, 1}

FileData == UNION {[1..n -> Bytes] : n \in 0..MaxFileLen}

\* What was at out_path before: a byte value no decryption produces.
OldData == <<2, 2>>

\* encryption_key: well formed; not base64 (binascii.Error); shorter than
\* the 16 byte IV, or with a ciphertext that is no multiple of the AES block
\* (ValueError from AES.new / decrypt).
Tokens == {"ok", "bad_base64", "short", "misaligned"}

\* AES in CTR mode xors the data with a keystream: byte i of the keystream
\* of the unwrapped key, here the parity of i.
KeyStream(i) == i % 2

\* decryptor.decrypt(data)
ctr_decrypt(data) == [i \in 1..Len(data) |-> (data[i] + KeyStream(i)) % 2]

\* The imports, the two b64decode calls, the CBC unwrap of the token and the
\* construction of the CTR cipher: what they raise, "none" when nothing.
unwrap_error(avail, tok) ==
    CASE ~avail             -> "Abort"
      [] tok = "bad_base64" -> "binascii.Error"
      [] tok = "short"      -> "ValueError"
      [] tok = "misaligned" -> "ValueError"
      [] OTHER              -> "none"

\* open(out_path, "wb"): the file exists and is empty.
open_wb(f) == [exists |-> TRUE, data |-> <<>>]

MqaIdle ==
    /\ crypto_available = TRUE
    /\ token = "ok"
    /\ in_file = [exists |-> FALSE, data |-> <<>>]
    /\ out_before = [exists |-> FALSE, data |-> <<>>]
    /\ out_file = [exists |-> FALSE, data |-> <<>>]
    /\ dec_bytes = <<>>
    /\ mpc = "idle"
    /\ mexc = "none"

MqaStart ==
    /\ crypto_available \in BOOLEAN
    /\ token \in Tokens
    /\ in_file \in {[exists |-> FALSE, data |-> <<>>]}
                       \cup {[exists |-> TRUE, data |-> d] : d \in FileData}
    /\ out_before \in {[exists |-> FALSE, data |-> <<>>],
                       [exists |-> TRUE, data |-> OldData]}
    /\ out_file = out_before
    /\ dec_bytes = <<>>
    /\ mpc = "start"
    /\ mexc = "none"

\* From the imports to decryptor = AES.new(key, AES.MODE_CTR, counter=counter).
MqaUnwrapToken ==
    /\ mpc = "start"
    /\ LET e == unwrap_error(crypto_available, token)
       IN  IF e = "none"
           THEN mpc' = "keyed" /\ mexc' = mexc
           ELSE mpc' = "raised" /\ mexc' = e
    /\ UNCHANGED <<crypto_available, token, in_file, out_before, out_file,
                   dec_bytes>>
    /\ MqaFrame

\* with open(in_path, "rb") as enc_file:
\*     dec_bytes = decryptor.decrypt(enc_file.read())
MqaReadInput ==
    /\ mpc = "keyed"
    /\ IF in_file.exists
       THEN /\ dec_bytes' = ctr_decrypt(in_file.data)
            /\ mpc' = "decrypted"
            /\ mexc' = mexc
       ELSE /\ mpc' = "raised"
            /\ mexc' = "FileNotFoundError"
            /\ dec_bytes' = dec_bytes
    /\ UNCHANGED <<crypto_available, token, in_file, out_before, out_file>>
    /\ MqaFrame

\* with open(out_path, "wb") as dec_file: the open itself.
MqaOpenOutput ==
    /\ mpc = "decrypted"
    /\ \E ok \in BOOLEAN :
          IF ok
          THEN /\ out_file' = open_wb(out_file)
               /\ mpc' = "opened"
               /\ mexc' = mexc
          ELSE /\ out_file' = out_file
               /\ mpc' = "raised"
               /\ mexc' = "OSError"
    /\ UNCHANGED <<crypto_available, token, in_file, out_before, dec_bytes>>
    /\ MqaFrame

\* dec_file.write(dec_bytes) and the close: all the bytes, or an error that
\* leaves the first k of them in the file. Nothing removes the file.
MqaWrite ==
    /\ mpc = "opened"
    /\ \E k \in 0..Len(dec_bytes) :
          /\ out_file' = [out_file EXCEPT !.data = SubSeq(dec_bytes, 1, k)]
          /\ IF k = Len(dec_bytes)
             THEN mpc' = "done" /\ mexc' = mexc
             ELSE mpc' = "raised" /\ mexc' = "OSError"
    /\ UNCHANGED <<crypto_available, token, in_file, out_before, dec_bytes>>
    /\ MqaFrame

MqaNext ==
    \/ MqaUnwrapToken
    \/ MqaReadInput
    \/ MqaOpenOutput
    \/ MqaWrite

(***************************************************************************)
(* Many transfers at once: gen_threadsafe_session and session.get.         *)
(***************************************************************************)

\* HTTPAdapter(pool_connections=100, pool_maxsize=100)
PoolMaxsize == 100

\* At most MaxTransfers transfers are started.
MaxTransfers == 101

PoolIdle ==
    /\ pending = 0
    /\ open_conns = 0
    /\ finished = 0

\* gen_threadsafe_session(), called by tqdm_download and by
\* DownloadStream.__init__ for each transfer: a new requests.Session with a
\* new HTTPAdapter, that is a connection pool of its own.
GenThreadsafeSession ==
    /\ pending + open_conns + finished < MaxTransfers
    /\ pending' = pending + 1
    /\ UNCHANGED <<open_conns, finished>>
    /\ PoolFrame

\* session.get(url, stream=True, ...) on the transfer's own session: its
\* pool is empty, so a connection is opened; no other transfer is waited for.
PoolSessionGet ==
    /\ pending > 0
    /\ pending' = pending - 1
    /\ open_conns' = open_conns + 1
    /\ UNCHANGED finished
    /\ PoolFrame

\* A transfer read its body to the end: the connection goes back to the
\* pool of its session.
PoolRelease ==
    /\ open_conns > 0
    /\ open_conns' = open_conns - 1
    /\ finished' = finished + 1
    /\ UNCHANGED pending
    /\ PoolFrame

PoolNext ==
    \/ GenThreadsafeSession
    \/ PoolSessionGet
    \/ PoolRelease

(***************************************************************************)
(* The specifications.                                                     *)
(***************************************************************************)

QualityInit == QualityCalls /\ DownloadIdle /\ MqaIdle /\ PoolIdle

SpecQuality == QualityInit /\ [][QualityNext]_vars

DownloadInit == DownloadStart /\ QualityIdle /\ MqaIdle /\ PoolIdle

SpecDownload == DownloadInit /\ [][DownloadNext]_vars

MqaInit == MqaStart /\ QualityIdle /\ DownloadIdle /\ PoolIdle

SpecMqa == MqaInit /\ [][MqaNext]_vars

PoolInit == PoolIdle /\ QualityIdle /\ DownloadIdle /\ MqaIdle

SpecPool == PoolInit /\ [][PoolNext]_vars

(***************************************************************************)
(* Claims about the QualityResolver, checked under SpecQuality.            *)
(***************************************************************************)

\* The last call returned v / raised exception class e.
Returned(v) == ret.kind = "return" /\ ret.val = v

Raised(e) == ret.kind = "raise" /\ ret.val = e

\* C5: get_quality_id, in utils.py and in metadata.py, returns 1 when the bit
\* depth or the sampling rate is absent, 2 for 16 bit, 3 for 24 bit up to 96
\* and 4 for 24 bit above 96; for any other bit depth with a rate present it
\* fails with an error instead of returning a value (any exception class is
\* accepted here as the failure). The result is never 0.
C5_QualityIdReference ==
    call \in {"get_quality_id", "metadata.get_quality_id"} =>
        /\ (bit_depth = None \/ sampling_rate = None) => Returned(1)
        /\ (bit_depth = 16 /\ sampling_rate # None) => Returned(2)
        /\ (bit_depth = 24 /\ sampling_rate # None /\ sampling_rate <= 96)
               => Returned(3)
        /\ (bit_depth = 24 /\ sampling_rate # None /\ sampling_rate > 96)
               => Returned(4)
        /\ (bit_depth \notin {None, 16, 24} /\ sampling_rate # None)
               => ret.kind = "raise"
        /\ ~Returned(0)

\* C6: get_quality returns the static table entry of every defined
\* (provider, id) pair and fails with InvalidQuality or InvalidSourceError
\* for a provider or an id the table lacks.
C6_ProviderCodeTable ==
    call = "get_quality" =>
        LET ok(v) == Returned(v)
            missing == ret.kind = "raise"
                       /\ ret.val \in {"InvalidQuality", "InvalidSourceError"}
        IN  CASE source = "qobuz" /\ quality_id = 1 -> ok(5)
              [] source = "qobuz" /\ quality_id = 2 -> ok(6)
              [] source = "qobuz" /\ quality_id = 3 -> ok(7)
              [] source = "qobuz" /\ quality_id = 4 -> ok(27)
              [] source = "deezer" /\ quality_id = 0 -> ok(<<9, "MP3_128">>)
              [] source = "deezer" /\ quality_id = 1 -> ok(<<3, "MP3_320">>)
              [] source = "deezer" /\ quality_id = 2 -> ok(<<1, "FLAC">>)
              [] source = "tidal" /\ quality_id = 0 -> ok("LOW")
              [] source = "tidal" /\ quality_id = 1 -> ok("HIGH")
              [] source = "tidal" /\ quality_id = 2 -> ok("LOSSLESS")
              [] source = "tidal" /\ quality_id = 3 -> ok("HI_RES")
              [] OTHER -> missing

\* C9: for a bit depth of 16 or 24 and a present sampling rate,
\* get_stats_from_quality of the derived id is (16, 44100) for id 2,
\* (24, 96000) for id 3 and (24, 192000) for id 4; with the depth or the rate
\* absent the id is 1 and the stats are (None, None); get_stats_from_quality
\* raises InvalidQuality for every id above 4.
C9_StatsOfDerivedId ==
    /\ call \in {"get_quality_id", "metadata.get_quality_id"} =>
           /\ (bit_depth \in {16, 24} /\ sampling_rate # None) =>
                  /\ ret.kind = "return"
                  /\ ret.val \in {2, 3, 4}
                  /\ ret.val = 2
                         => get_stats_from_quality(ret.val) = Return(<<16, 44100>>)
                  /\ ret.val = 3
                         => get_stats_from_quality(ret.val) = Return(<<24, 96000>>)
                  /\ ret.val = 4
                         => get_stats_from_quality(ret.val) = Return(<<24, 192000>>)
           /\ (bit_depth = None \/ sampling_rate = None) =>
                  /\ Returned(1)
                  /\ get_stats_from_quality(ret.val) = Return(<<None, None>>)
    /\ (call = "get_stats_from_quality" /\ quality_id > 4)
           => Raised("InvalidQuality")

\* C9's case: a 24 bit, 192 kHz item was given id 4.
C9_Witness ==
    /\ call = "get_quality_id"
    /\ bit_depth = 24
    /\ sampling_rate = 192
    /\ Returned(4)

\* C10: an id of 2 or more gives FLAC and ".flac" for every provider; an id of
\* 1 or less gives AAC and ".m4a" for tidal and MP3 and ".mp3" for every other
\* provider; the container is FLAC exactly when the extension is ".flac".
C10_ContainerAndExtension ==
    /\ call = "ext" =>
           Returned(IF quality_id >= 2 THEN ".flac"
                    ELSE IF source = "tidal" THEN ".m4a" ELSE ".mp3")
    /\ call = "get_container" =>
           Returned(IF quality_id >= 2 THEN "FLAC"
                    ELSE IF source = "tidal" THEN "AAC" ELSE "MP3")
    /\ call = "ext" =>
           (ret.val = ".flac" <=> get_container(quality_id, source).val = "FLAC")
    /\ call = "get_container" =>
           (ret.val = "FLAC" <=> ext(quality_id, source).val = ".flac")

\* C10's case: the extension of a lossy tidal item was asked for.
C10_Witness ==
    /\ call = "ext"
    /\ quality_id = 1
    /\ source = "tidal"
    /\ Returned(".m4a")

\* C14: for every quality id in 1..4, get_quality_id (either copy) of the
\* (bit_depth, sampling_rate) pair get_stats_from_quality returns for the id
\* is the id again.
C14_IdStatsIdRoundTrip ==
    (call = "get_stats_from_quality" /\ quality_id \in 1..4) =>
        /\ ret.kind = "return"
        /\ get_quality_id(ret.val[1], ret.val[2]) = Return(quality_id)
        /\ metadata_get_quality_id(ret.val[1], ret.val[2]) = Return(quality_id)

(***************************************************************************)
(* Claims about one transfer, checked under SpecDownload.                  *)
(***************************************************************************)

\* The response declares no length or a length of 0.
ZeroLength == pc # "idle" /\ content_length \in {None, 0}

IsImageUrl == url.suffix \in {"jpg", "png"}

C2_ZeroLengthNeverStarts ==
    ZeroLength =>
        /\ delivered = 0
        /\ written = 0
        /\ pc \in {"start", "responded", "raised"}
        /\ pc = "raised" => (exc.type = "NonStreamable" /\ exc.at = "check")

\* C2, amended: a transfer whose declared length is 0 or absent fails at the
\* length check, before any chunk reaches the consumer or any byte is
\* written, when it is a DownloadStream (always with NonStreamable) or a
\* tqdm_download of a URL that ends neither in jpg nor in png (with
\* NonStreamable, or with the KeyError or TypeError of r.json()["error"] when
\* the body is JSON without an "error" entry).
C2_ZeroLengthFailsAtCheck ==
    (ZeroLength /\ (api = "DownloadStream" \/ ~IsImageUrl)) =>
        /\ delivered = 0
        /\ written = 0
        /\ pc \in {"start", "responded", "raised"}
        /\ pc = "raised" =>
               /\ exc.at = "check"
               /\ \/ exc.type = "NonStreamable"
                  \/ /\ api = "tqdm_download"
                     /\ body_json = "other_object"
                     /\ exc.type = "KeyError"
                  \/ /\ api = "tqdm_download"
                     /\ body_json = "not_object"
                     /\ exc.type = "TypeError"

\* C2's case: tqdm_download of a non-image URL met a response without a
\* length and raised NonStreamable with nothing written.
C2_Witness ==
    /\ api = "tqdm_download"
    /\ ~IsImageUrl
    /\ content_length = None
    /\ pc = "raised"
    /\ exc.type = "NonStreamable"
    /\ written = 0

\* C4: no terminated transfer (completed, NonStreamable at the length check,
\* an error while iterating or writing) leaves its connection open.
C4_ConnectionReleasedAtExit ==
    pc \in {"done", "raised"} => conn # "open"

\* C7: when the declared length is 0 (or absent) the length check fails with
\* NonStreamable and nothing else, carrying the provider's error text when
\* the body is a structured error payload and "Resource not found." when the
\* body does not parse, and never any other message.
C7_NonStreamableMessage ==
    (ZeroLength /\ pc = "raised" /\ exc.at = "check") =>
        /\ exc.type = "NonStreamable"
        /\ exc.msg \in {ProviderErrorText, "Resource not found."}
        /\ body_json = "error_object" => exc.msg = ProviderErrorText
        /\ body_json = "invalid" => exc.msg = "Resource not found."

\* A DownloadStream that has handed a chunk to its consumer.
ChunkDelivered == api = "DownloadStream" /\ Len(chunk_in) > 0

\* The provider tag is "deezer" and the URL contains /mobile/ or /media/.
DeezerEncryptedUrl == provider = "deezer" /\ url.path \in {"/mobile/", "/media/"}

\* C11: with the decryptor active, a raw chunk of n bytes reaches the
\* consumer as n bytes: the same bytes when n < 2048; when n >= 2048 the
\* bytes from offset 2048 on are the same and the first 2048 are the CBC
\* decryption, under the key of the item id and the fixed IV, of the raw
\* chunk's first 2048 bytes alone. The raw chunk is the part of the body that
\* follows the chunks delivered before it.
C11_ChunkTransform ==
    (ChunkDelivered /\ DeezerEncryptedUrl) =>
        LET n == Len(chunk_in)
            key == generate_blowfish_key(item_id)
        IN  /\ Len(chunk) = n
            /\ n < 2048 => chunk = chunk_in
            /\ n >= 2048 =>
                /\ \A i \in 2049..n : chunk[i] = chunk_in[i]
                /\ SubSeq(chunk, 1, 2048) = decrypt_chunk(key, SubSeq(chunk_in, 1, 2048))
            /\ delivered + body = content_length
            /\ \A i \in 1..n : chunk_in[i] = BodyByte(payload, delivered - n + i)

\* C11 happens: the second chunk of a transfer is exactly 2048 bytes long and
\* the decryptor changed it.
C11_Witness ==
    /\ ChunkDelivered
    /\ DeezerEncryptedUrl
    /\ delivered = 6144 + 2048
    /\ Len(chunk_in) = 2048
    /\ chunk # chunk_in

\* C12: a chunk is read with size 6144 when the provider tag is "deezer" and
\* the URL contains /mobile/ or /media/, and with size 1024 otherwise (the
\* last chunk is what is left of the body); in the second case the consumer
\* receives the raw chunk, and a chunk that differs from the raw chunk is
\* seen only in the first.
C12_ActivationAndChunkSize ==
    ChunkDelivered =>
        LET size == IF DeezerEncryptedUrl THEN 6144 ELSE 1024
            left == body + Len(chunk_in)
        IN  /\ Len(chunk_in) = IF left < size THEN left ELSE size
            /\ ~DeezerEncryptedUrl => chunk = chunk_in
            /\ chunk # chunk_in => DeezerEncryptedUrl

\* C12 happens: a "deezer" transfer whose URL has neither marker delivered a
\* full chunk of 1024 bytes as it was read, with more of the body to come.
C12_Witness ==
    /\ ChunkDelivered
    /\ provider = "deezer"
    /\ url.path = "/other/"
    /\ Len(chunk_in) = 1024
    /\ chunk = chunk_in
    /\ body > 6144

\* C13: a DownloadStream never delivers more bytes than its body has, and
\* once the body was traversed to the end no step delivers a chunk or makes
\* the body available again.
C13_SingleUse ==
    [][api = "DownloadStream" =>
          /\ pc' \in {"constructed", "done"} => delivered' + body' = content_length
          /\ pc = "done" => (delivered' = delivered /\ chunk' = chunk /\ body' = 0)]_vars

\* C13 happens: after a traversal of more than one chunk a second iteration
\* was started and refused, with every byte delivered once.
C13_Witness ==
    /\ api = "DownloadStream"
    /\ exc.type = "StreamConsumedError"
    /\ delivered = content_length
    /\ delivered > 6144
    /\ body = 0

(***************************************************************************)
(* Claims about decrypt_mqa_file, checked under SpecMqa.                   *)
(***************************************************************************)

\* C3: after a failure of decrypt_mqa_file the destination is untouched or
\* holds the complete decrypted bytes, never a truncated file, and no new
\* file exists at a destination that had none.
C3_AllOrNothing ==
    mpc = "raised" =>
        /\ \/ out_file = out_before
           \/ out_file.exists /\ out_file.data = ctr_decrypt(in_file.data)
        /\ ~out_before.exists => ~out_file.exists

(***************************************************************************)
(* Claims about concurrent transfers, checked under SpecPool.              *)
(***************************************************************************)

\* C8: the connections open across all running transfers never exceed the
\* capacity of the pool (100); a transfer started at capacity waits.
C8_BoundedConnections == open_conns <= PoolMaxsize

====
